---- MODULE Spec2Model ----
(***************************************************************************)
(* Model of the solar investigator's anomaly filter                        *)
(* (filter_plant_timeseries_data) and of the session state it writes.      *)
(*                                                                         *)
(* Numbers.  A JSON number is modelled as a pair <<n, f>>: the integer     *)
(* part n and the fraction f counted in units of 10^-11, so <<80, 7>> is   *)
(* 80.00000000007.  The sample values carry a fraction only in             *)
(* five_min_pr_percent; the arithmetic of the detectors (differences,      *)
(* rolling sums, quantile) works on power and temperature, whose sample    *)
(* values are whole numbers, and is carried out exactly on integers.       *)
(* A missing value (pandas NaN / NA) is the pair <<NaN, 0>>.               *)
(***************************************************************************)
EXTENDS Integers, Sequences, FiniteSets, TLC

VARIABLES calls, state,
          inv, run, active_runners, event_queues, queues, streams,
          summary,
          start, active_connections, broadcast, sockets

\* the anomaly filter and its session state
toolVars == <<calls, state>>
\* SimplifiedInvestigationService and the clients of its event stream
svcVars == <<inv, run, active_runners, event_queues, queues, streams>>
\* generate_ui_summary
uiVars == <<summary>>
\* InvestigationService.start_investigation and the websocket
\* ConnectionManager
apiVars == <<start, active_connections, broadcast, sockets>>

vars == <<calls, state, inv, run, active_runners, event_queues, queues, streams,
          summary, start, active_connections, broadcast, sockets>>

(* ---------------------------------------------------------------- bounds *)
\* longest batch of records handed to the filter
MaxLen == 12
\* number of invocations that may run within one session
MaxCallers == 2
\* longest batch used when two invocations share a session
ConcLen == 1
\* clients that may open the event stream of the investigation
MaxClients == 2
\* clients that do open it where a single stream is followed
MaxStreams == 1
\* most events the agent run yields to the service
MaxAgentEvents == 1
\* most heartbeats a stream yields
MaxHeartbeats == 1
\* most strings stored by append_problematic_rows
MaxAppends == 2
\* websockets that may connect for the investigation
MaxSockets == 2
\* last day number a request may name
MaxDay == 7
\* most words of an agent response handed to the summarizer
MaxWords == 16

(* ------------------------------------------------------- program constants *)
LowYieldIrradiance == 400
LowYieldPr == 60
PowerDropThreshold == -100
ClippingIrradiance == 900
ClippingDiff == 1
SeasonalPeriod == 48
MlMinRows == 10
MinWindow == 5
WindowDivisor == 20
ExploratoryPr == 70
RollingWindow == 12
\* contamination = 0.05 = 1 / 20
ContaminationInverse == 20
\* quantile(0.95) = 19 / 20
QuantileNum == 19
QuantileDen == 20
\* to_json writes 10 decimal places (double_precision); a fraction is counted
\* in units of 10^-11, so ten of them make the last decimal place written
FractionUnit == 10
\* std_threshold = 1.5 * std = 3 / 2 * std
StdFactorNum == 3
StdFactorDen == 2
\* IsolationForest(..., random_state=42)
RandomState == 42
\* date_diff > 5
MaxDateRange == 5
\* len(final_response.strip()) > 10
MinResponseLen == 10
\* max_retries of the database-backed start_investigation
MaxRetries == 1
\* words[:15], [:10], len(w) > 2, len(meaningful_words) >= 6
SummaryWindow == 15
SummaryWords == 10
ShortWordLen == 2
MinMeaningfulWords == 6

NaN == -999999
Null == <<NaN, 0>>
\* an optional value: None, or the value held
None == <<>>
Some(x) == <<x>>

IsNull(v) == v[1] = NaN

\* v > k and v < k for a whole number k; comparisons with NaN are false
DecGT(v, k) == ~IsNull(v) /\ (v[1] > k \/ (v[1] = k /\ v[2] > 0))
DecLT(v, k) == ~IsNull(v) /\ v[1] < k

Abs(x) == IF x < 0 THEN -x ELSE x
Max(a, b) == IF a > b THEN a ELSE b

RECURSIVE SumOver(_, _)
\* the sum of f[i] over the finite set S of indices
SumOver(f, S) ==
  IF S = {} THEN 0
  ELSE LET i == CHOOSE x \in S : TRUE IN f[i] + SumOver(f, S \ {i})

RECURSIVE Column(_, _)
\* the column <<f[1], ..., f[n]>> as a sequence, each cell computed once
Column(f, n) == IF n = 0 THEN <<>> ELSE Append(Column(f, n - 1), f[n])

(* ------------------------------------------------------------ the columns *)
KeyDatetime == "datetime"
KeyPr == "five_min_pr_percent"
KeyPower == "active_power_effective_kw"
KeyIrr == "irradiance_wm_squared"
KeyTemp == "pv_module_temperature_c"

OutputColumns == {KeyDatetime, KeyPr, KeyPower, KeyIrr, KeyTemp}

\* json.loads + pd.DataFrame(data): the columns are the union of the records'
\* keys, and a record that lacks a key gets NaN in that column
Columns(data) == UNION {DOMAIN data[i] : i \in 1..Len(data)}

RECURSIVE Row(_, _)
\* the record's values in the columns cols, NaN where it has none
Row(record, cols) ==
  IF cols = {} THEN <<>>
  ELSE LET c == CHOOSE x \in cols : TRUE
       IN (c :> (IF c \in DOMAIN record THEN record[c] ELSE Null))
            @@ Row(record, cols \ {c})

DataFrame(data) ==
  LET cols == Columns(data)
      row(i) == Row(data[i], cols)
  IN Column([x \in 1..Len(data) |-> row(x)], Len(data))

Power(df, i) == df[i][KeyPower][1]

(* ------------------------------------------------------ derived features *)
\* norm_power without the replace(0, NA): a zero irradiance gives a value
NormPowerNullUnlessZero(df, i) ==
  \/ IsNull(df[i][KeyPower])
  \/ IsNull(df[i][KeyIrr])

\* norm_power = power / irradiance.replace(0, NA): null when the irradiance is
\* zero or either operand is missing
NormPowerNull(df, i) ==
  \/ IsNull(df[i][KeyPower])
  \/ IsNull(df[i][KeyIrr])
  \/ df[i][KeyIrr] = <<0, 0>>

\* smoothed_power: trailing window of RollingWindow samples, min_periods = 1;
\* the pair <<sum, count>> of the non-missing values in the window
SmoothedPower(df) ==
  LET win(i) == {j \in Max(1, i - RollingWindow + 1)..i : Power(df, j) # NaN}
      cell(i) == <<SumOver([j \in win(i) |-> Power(df, j)], win(i)),
                   Cardinality(win(i))>>
  IN Column([x \in 1..Len(df) |-> cell(x)], Len(df))

\* Series.diff(): NaN for the first row and wherever an operand is missing
PowerDiff(df, i) ==
  IF i = 1 \/ Power(df, i) = NaN \/ Power(df, i - 1) = NaN
  THEN NaN
  ELSE Power(df, i) - Power(df, i - 1)

(* --------------------------------------------------- rule-based detection *)
\* the low-yield rule with the irradiance bound included (>= where the code
\* has >)
LowYieldInclusive(df) ==
  LET cell(i) == /\ ~DecLT(df[i][KeyIrr], LowYieldIrradiance)
                 /\ ~IsNull(df[i][KeyIrr])
                 /\ DecLT(df[i][KeyPr], LowYieldPr)
  IN Column([x \in 1..Len(df) |-> cell(x)], Len(df))

LowYield(df) ==
  LET cell(i) == /\ DecGT(df[i][KeyIrr], LowYieldIrradiance)
                 /\ DecLT(df[i][KeyPr], LowYieldPr)
  IN Column([x \in 1..Len(df) |-> cell(x)], Len(df))

\* the power-drop rule with the threshold included (<= where the code has <)
PowerDropInclusive(df) ==
  LET cell(i) == PowerDiff(df, i) # NaN /\ PowerDiff(df, i) <= PowerDropThreshold
  IN Column([x \in 1..Len(df) |-> cell(x)], Len(df))

PowerDrop(df) ==
  LET cell(i) == PowerDiff(df, i) # NaN /\ PowerDiff(df, i) < PowerDropThreshold
  IN Column([x \in 1..Len(df) |-> cell(x)], Len(df))

Clipping(df) ==
  LET cell(i) == /\ PowerDiff(df, i) # NaN
                 /\ Abs(PowerDiff(df, i)) < ClippingDiff
                 /\ DecGT(df[i][KeyIrr], ClippingIrradiance)
  IN Column([x \in 1..Len(df) |-> cell(x)], Len(df))

(* ------------------------------------------------ time series decomposition *)
\* seasonal_decompose raises (and the bare except takes over) when the series
\* is shorter than two periods or still holds a NaN after interpolate(), which
\* fills every gap but a leading one
DecomposeFails(df) ==
  \/ Len(df) < 2 * SeasonalPeriod
  \/ Power(df, 1) = NaN

\* The residuals of a successful decomposition are not computed here: the rows
\* it may flag are any of those that have a residual (the centred trend leaves
\* half a period without one at either end).
ResidualOutcomes(df) ==
  IF DecomposeFails(df)
  THEN {{}}
  ELSE SUBSET {i \in 1..Len(df) :
                 i > SeasonalPeriod \div 2 /\ i <= Len(df) - SeasonalPeriod \div 2}

(* ------------------------------------------------------ ML-based detection *)
MlFeatures(df) ==
  {i \in 1..Len(df) :
     ~NormPowerNull(df, i) /\ ~IsNull(df[i][KeyPr]) /\ ~IsNull(df[i][KeyTemp])}

\* the detector fitted from 10 complete rows on (>= where the code has >)
MlFittedAtLeast(df) == Cardinality(MlFeatures(df)) >= MlMinRows

\* if len(ml_features) > 10
MlFitted(df) == Cardinality(MlFeatures(df)) > MlMinRows

\* two rows with the same feature vector (norm_power, PR, temperature)
SameFeatures(df, i, j) ==
  /\ Power(df, i) * df[j][KeyIrr][1] = Power(df, j) * df[i][KeyIrr][1]
  /\ df[i][KeyPr] = df[j][KeyPr]
  /\ df[i][KeyTemp] = df[j][KeyTemp]

\* IsolationForest(contamination=0.05, random_state=42).fit_predict: the rows
\* predicted -1 are those scoring strictly below the 5th percentile of the
\* scores.  The scores are not computed here; what is kept of them is that rows
\* with equal features score alike and that at most 1 + (n-1)/20 rows lie
\* strictly below that percentile.
IsolationForestOutcomes(df) ==
  LET rows == MlFeatures(df)
      most == (Cardinality(rows) - 1) \div ContaminationInverse + 1
      cands == IF most = 1 THEN {{}} \cup {{i} : i \in rows} ELSE SUBSET rows
  IN {S \in cands :
        /\ Cardinality(S) <= most
        /\ \A i \in S : \A j \in rows : SameFeatures(df, i, j) => j \in S}

MlOutcomes(df) == IF MlFitted(df) THEN IsolationForestOutcomes(df) ELSE {{}}

MlAnomaly(df, ml) ==
  LET cell(i) == i \in ml
  IN Column([x \in 1..Len(df) |-> cell(x)], Len(df))

ResidualAnomaly(df, resid) ==
  LET cell(i) == i \in resid
  IN Column([x \in 1..Len(df) |-> cell(x)], Len(df))

ProductionFinal(df, ml, resid) ==
  LET lowYield == LowYield(df)
      powerDrop == PowerDrop(df)
      clipping == Clipping(df)
      cell(i) == \/ lowYield[i]
                 \/ powerDrop[i]
                 \/ clipping[i]
                 \/ i \in resid
                 \/ i \in ml
  IN Column([x \in 1..Len(df) |-> cell(x)], Len(df))

(* ------------------------------------------- exploratory residual analysis *)
WindowSize(n) == Max(MinWindow, n \div WindowDivisor)

\* rolling(window, center=True).mean(), kept as the window's sum: the window of
\* row i ends (window - 1) \div 2 rows after it, and has a value only when it
\* lies within the series and holds no NaN (min_periods = window)
CenteredSum(df) ==
  LET n == Len(df)
      w == WindowSize(n)
      last(i) == i + (w - 1) \div 2
      win(i) == (last(i) - w + 1)..last(i)
      cell(i) == IF /\ last(i) - w + 1 >= 1
                    /\ last(i) <= n
                    /\ \A j \in win(i) : Power(df, j) # NaN
                 THEN SumOver([j \in win(i) |-> Power(df, j)], win(i))
                 ELSE NaN
  IN Column([x \in 1..n |-> cell(x)], n)

\* the positions of a column that hold a value
Valid(col) == {i \in 1..Len(col) : col[i] # NaN}

\* bfill() then ffill(): a gap takes the next value of the column, or the
\* last one when none follows; has is the set of positions holding a value
FillGaps(raw, has) ==
  LET cell(i) ==
        IF \E j \in has : j >= i
        THEN raw[CHOOSE j \in has : j >= i /\ \A k \in has : k >= i => j <= k]
        ELSE IF has # {}
        THEN raw[CHOOSE j \in has : \A k \in has : k <= j]
        ELSE NaN
  IN Column([x \in 1..Len(raw) |-> cell(x)], Len(raw))

BackAndForwardFill(raw) == FillGaps(raw, Valid(raw))

\* trend = rolling(window, center=True).mean().bfill().ffill(), times the window
Trend(df) == BackAndForwardFill(CenteredSum(df))

\* power_values - trend, times the window w
Subtract(df, trend, w) ==
  LET cell(i) == IF Power(df, i) = NaN \/ trend[i] = NaN
                 THEN NaN
                 ELSE w * Power(df, i) - trend[i]
  IN Column([x \in 1..Len(df) |-> cell(x)], Len(df))

Residuals(df) == Subtract(df, Trend(df), WindowSize(Len(df)))

\* |residual| > 1.5 * np.std(residuals): the standard deviation is the
\* population one over the residuals ok that are not NaN, so with m such
\* residuals r the test is  4 m^2 r_i^2 > 9 (m * sum r^2 - (sum r)^2)
ExceedsThreshold(res, ok) ==
  LET m == Cardinality(ok)
      s1 == SumOver([i \in ok |-> res[i]], ok)
      s2 == SumOver([i \in ok |-> res[i] * res[i]], ok)
      rhs == StdFactorNum * StdFactorNum * (m * s2 - s1 * s1)
      cell(i) == /\ i \in ok
                 /\ StdFactorDen * StdFactorDen * m * m * res[i] * res[i] > rhs
  IN Column([x \in 1..Len(res) |-> cell(x)], Len(res))

AbsAboveThreshold(res) == ExceedsThreshold(res, Valid(res))

\* stat_outlier = np.abs(residuals) > std_threshold
StatOutlier(df) == AbsAboveThreshold(Residuals(df))

PrMask(df) ==
  LET cell(i) == /\ DecGT(df[i][KeyIrr], LowYieldIrradiance)
                 /\ DecLT(df[i][KeyPr], ExploratoryPr)
  IN Column([x \in 1..Len(df) |-> cell(x)], Len(df))

ExploratoryFinal(df) ==
  LET statOutlier == StatOutlier(df)
      prMask == PrMask(df)
      cell(i) == statOutlier[i] \/ prMask[i]
  IN Column([x \in 1..Len(df) |-> cell(x)], Len(df))

(* -------------------------------------------------- temperature detection *)
\* the column were the threshold the highest temperature: no row exceeds it
TempOutlierAboveMax(df) == Column([x \in 1..Len(df) |-> FALSE], Len(df))

\* temperature > temperature.quantile(0.95), linear interpolation between the
\* order statistics around position 0.95 * (m - 1); all sides times 20
TempOutlier(df) ==
  LET n == Len(df)
      ok == {i \in 1..n : ~IsNull(df[i][KeyTemp])}
      m == Cardinality(ok)
      t(i) == df[i][KeyTemp][1]
      Kth(k) == CHOOSE v \in {t(i) : i \in ok} :
                  /\ Cardinality({i \in ok : t(i) < v}) < k
                  /\ k <= Cardinality({i \in ok : t(i) <= v})
      h == QuantileNum * (m - 1)
      lo == h \div QuantileDen + 1
      fr == h % QuantileDen
      q == QuantileDen * Kth(lo)
             + (IF fr = 0 THEN 0 ELSE fr * (Kth(lo + 1) - Kth(lo)))
      cell(i) == /\ i \in ok
                 /\ \/ QuantileDen * t(i) > q
                    \/ QuantileDen * t(i) = q /\ df[i][KeyTemp][2] > 0
  IN Column([x \in 1..n |-> cell(x)], n)

(* ------------------------------------------------------------ combination *)
\* df_work's flag columns when the detectors are through
Flags(df, ml, resid) ==
  [low_yield |-> LowYield(df),
   power_drop |-> PowerDrop(df),
   clipping |-> Clipping(df),
   residual_anomaly |-> ResidualAnomaly(df, resid),
   ml_anomaly |-> MlAnomaly(df, ml),
   stat_outlier |-> StatOutlier(df),
   temp_outlier |-> TempOutlier(df)]

\* the hybrid conditions with the temperature condition left out
HybridFinalWithoutTemperature(flags) ==
  LET cell(i) == \/ flags.low_yield[i]
                 \/ flags.power_drop[i]
                 \/ flags.stat_outlier[i]
                 \/ flags.ml_anomaly[i]
  IN Column([x \in 1..Len(flags.low_yield) |-> cell(x)], Len(flags.low_yield))

\* the hybrid conditions with the clipping rule among them
HybridFinalWithClipping(flags) ==
  LET cell(i) == \/ flags.low_yield[i]
                 \/ flags.power_drop[i]
                 \/ flags.clipping[i]
                 \/ flags.stat_outlier[i]
                 \/ flags.ml_anomaly[i]
                 \/ flags.temp_outlier[i]
  IN Column([x \in 1..Len(flags.low_yield) |-> cell(x)], Len(flags.low_yield))

\* hybrid_final: the any() over the hybrid conditions
HybridFinal(flags) ==
  LET cell(i) == \/ flags.low_yield[i]
                 \/ flags.power_drop[i]
                 \/ flags.stat_outlier[i]
                 \/ flags.ml_anomaly[i]
                 \/ flags.temp_outlier[i]
  IN Column([x \in 1..Len(flags.low_yield) |-> cell(x)], Len(flags.low_yield))

RECURSIVE SelectRowsDescending(_, _)
\* the positions of the rows whose mask is true, last row first
SelectRowsDescending(mask, n) ==
  IF n = 0 THEN <<>>
  ELSE IF mask[n] THEN <<n>> \o SelectRowsDescending(mask, n - 1)
  ELSE SelectRowsDescending(mask, n - 1)

RECURSIVE SelectRows(_, _)
\* df[mask]: the positions of the rows whose mask is true, in the frame's order
SelectRows(mask, n) ==
  IF n = 0 THEN <<>>
  ELSE IF mask[n] THEN Append(SelectRows(mask, n - 1), n)
  ELSE SelectRows(mask, n - 1)

(* ---------------------------------------------------------- serialisation *)
\* to_json writes a float with ten decimals: the digits beyond are
\* rounded away (a half goes up when the kept part is zero or odd)
RoundFraction(f) ==
  LET q == f \div FractionUnit
      r == f % FractionUnit
  IN IF 2 * r > FractionUnit \/ (2 * r = FractionUnit /\ (q = 0 \/ q % 2 = 1))
     THEN (q + 1) * FractionUnit
     ELSE q * FractionUnit

ToJsonNumber(v) == IF IsNull(v) THEN Null ELSE <<v[1], RoundFraction(v[2])>>

ToJsonRecord(row) ==
  [datetime |-> row[KeyDatetime],
   five_min_pr_percent |-> ToJsonNumber(row[KeyPr]),
   active_power_effective_kw |-> ToJsonNumber(row[KeyPower]),
   irradiance_wm_squared |-> ToJsonNumber(row[KeyIrr]),
   pv_module_temperature_c |-> ToJsonNumber(row[KeyTemp])]

\* filtered_df.to_json(orient="records")
ToJson(df, rows) ==
  LET cell(k) == ToJsonRecord(df[rows[k]])
  IN Column([x \in 1..Len(rows) |-> cell(x)], Len(rows))

(* ------------------------------------------------------------- the filter *)
Detectors == {"low_yield", "power_drop", "clipping", "residual_anomaly",
              "ml_anomaly", "stat_outlier", "temp_outlier"}

NoFlags == [d \in Detectors |-> <<>>]

Idle ==
  [pc |-> "idle", input |-> <<>>, error |-> "", ran |-> {}, fitted |-> FALSE,
   flags |-> NoFlags, rows |-> <<>>, result |-> <<>>, seen |-> None]

\* a column the function subscripts is absent: the first such line raises
\* KeyError, after the detectors above it have been evaluated
Raised(data, ran) ==
  [Idle EXCEPT !.pc = "raised", !.input = data, !.error = "KeyError", !.ran = ran]

\* filter_plant_timeseries_data(string_data, tool_context) up to its return
\* value, for the outcome ml of the Isolation Forest and resid of the
\* decomposition
FilterOutcome(data, ml, resid) ==
  LET cols == Columns(data)
      df == DataFrame(data)
      flags == Flags(df, ml, resid)
      rows == SelectRows(HybridFinal(flags), Len(df))
  IN IF ~({KeyPower, KeyIrr} \subseteq cols) THEN Raised(data, {})
     ELSE IF KeyPr \notin cols THEN Raised(data, {})
     ELSE IF KeyTemp \notin cols
     THEN Raised(data, {"low_yield", "power_drop", "clipping", "residual_anomaly"})
     ELSE IF KeyDatetime \notin cols THEN Raised(data, Detectors)
     ELSE [pc |-> "returned",
           input |-> data,
           error |-> "",
           ran |-> Detectors,
           fitted |-> MlFitted(df),
           flags |-> flags,
           rows |-> rows,
           result |-> ToJson(df, rows),
           seen |-> None]

\* the outcomes the two fitted models may have on this input
ModelOutcomes(data) ==
  IF OutputColumns \subseteq Columns(data)
  THEN MlOutcomes(DataFrame(data)) \X ResidualOutcomes(DataFrame(data))
  ELSE {<<{}, {}>>}

(* ------------------------------------------------------- the sample inputs *)
Callers == 1..MaxCallers

\* an ordinary sample: strong sun, healthy PR, steady power
Normal ==
  [five_min_pr_percent |-> <<80, 0>>,
   active_power_effective_kw |-> <<500, 0>>,
   irradiance_wm_squared |-> <<500, 0>>,
   pv_module_temperature_c |-> <<30, 0>>]

PrValues == {<<59, 0>>, <<59, 7>>, <<65, 0>>}
PowerValues == {<<399, 0>>}
IrrValues == {<<0, 0>>, <<950, 0>>}
TempValues == {<<45, 0>>}

\* the samples that differ from the ordinary one in one field, the last of
\* them by lacking active_power_effective_kw
Samples ==
  {Normal}
    \cup {[Normal EXCEPT ![KeyPr] = v] : v \in PrValues}
    \cup {[Normal EXCEPT ![KeyPower] = v] : v \in PowerValues}
    \cup {[Normal EXCEPT ![KeyIrr] = v] : v \in IrrValues}
    \cup {[Normal EXCEPT ![KeyTemp] = v] : v \in TempValues}
    \cup {[five_min_pr_percent |-> Normal[KeyPr],
            irradiance_wm_squared |-> Normal[KeyIrr],
            pv_module_temperature_c |-> Normal[KeyTemp]]}

\* samples at the thresholds of the rules: irradiance 401 and 400 with a PR
\* below 60, irradiance 401 with a PR of 60, and the powers that follow 500
\* with a step of -99 and of -100
BoundarySamples ==
  {[Normal EXCEPT ![KeyIrr] = <<401, 0>>, ![KeyPr] = <<59, 7>>],
   [Normal EXCEPT ![KeyIrr] = <<400, 0>>, ![KeyPr] = <<59, 7>>],
   [Normal EXCEPT ![KeyIrr] = <<401, 0>>, ![KeyPr] = <<60, 0>>],
   [Normal EXCEPT ![KeyPower] = <<401, 0>>],
   [Normal EXCEPT ![KeyPower] = <<400, 0>>]}

\* the sample as the record of the k-th five-minute slot
At(sample, k) == (KeyDatetime :> k) @@ sample

\* a day of n five-minute records in chronological order, ordinary but for
\* the samples a and b at the positions i and j
Batch(n, i, j, a, b) ==
  LET record(k) == At(IF k = i THEN a ELSE IF k = j THEN b ELSE Normal, k)
  IN Column([x \in 1..n |-> record(x)], n)

BatchesOf(n) ==
  {Batch(n, p[1], p[2], a, b) :
     p \in {q \in (1..n) \X (1..n) : q[1] < q[2]},
     a \in Samples \ {Normal}, b \in Samples \ {Normal}}
    \cup {Batch(n, i, i, a, a) : i \in 1..n, a \in Samples \cup BoundarySamples}

Batches == {<<>>} \cup UNION {BatchesOf(n) : n \in 1..MaxLen}

ConcBatches == {<<>>} \cup UNION {BatchesOf(n) : n \in 1..ConcLen}

\* the batches handed to two runs in a row: the short ones, and batches just
\* long enough for the Isolation Forest to be fitted
TwiceBatches ==
  ConcBatches
    \cup {Batch(MlMinRows + 1, 1, j, a, b) :
            j \in 2..3,
            a \in {[Normal EXCEPT ![KeyTemp] = v] : v \in TempValues},
            b \in {[Normal EXCEPT ![KeyPower] = v] : v \in PowerValues}
                   \cup {[Normal EXCEPT ![KeyPr] = <<65, 0>>]}}

TwoRuns == {1, 2}

\* the module temperature of slot k in a day of n records whose temperatures
\* all differ: rising through the day, falling, or highest in the second slot
TempAt(order, n, k) ==
  IF order = "rising" THEN 20 + k
  ELSE IF order = "falling" THEN 21 + n - k
  ELSE IF k = 2 THEN 20 + n
  ELSE IF k = 1 THEN 21
  ELSE 19 + k

\* the days of 2..MaxLen records with pairwise distinct module temperatures,
\* ordinary but for the sample a in slot i
TempBatches ==
  {Column([k \in 1..n |->
             At([(IF k = i THEN a ELSE Normal) EXCEPT
                   ![KeyTemp] = <<TempAt(order, n, k), 0>>], k)], n) :
     n \in 2..MaxLen, order \in {"rising", "falling", "peak"},
     i \in 1..MaxLen, a \in Samples}

(* ------------------------------------------- the investigation service *)
\* the one investigation the model follows (Investigation.id)
Investigations == {"investigation"}
Id == "investigation"

Clients == 1..MaxClients

\* the clients that open the stream where a single stream is followed
Watchers == 1..MaxStreams

\* PlantService._dummy_plants, and the plant ids a request may carry
KnownPlants == {"plant_001"}
PlantIds == KnownPlants \cup {"plant_unknown"}

\* InvestigationRequest: plant_id, start_date, end_date (as day numbers)
Requests ==
  [plant_id : PlantIds, start_date : 0..1, end_date : 0..MaxDay]

\* the requests used where the run and the streams are followed
RunRequests ==
  {[plant_id |-> "plant_001", start_date |-> 0, end_date |-> 1],
   [plant_id |-> "plant_unknown", start_date |-> 0, end_date |-> 1]}

\* the validation were a range of 5 days refused as well
ValidationErrorFromFive(request) ==
  IF request.plant_id \notin KnownPlants THEN "Plant not found"
  ELSE IF request.end_date - request.start_date < 0
  THEN "End date must be after start date"
  ELSE IF request.end_date - request.start_date >= MaxDateRange
  THEN "Date range cannot exceed 5 days"
  ELSE ""

\* create_investigation's validation: the ValueError it raises, or "" if none
ValidationError(request) ==
  IF request.plant_id \notin KnownPlants THEN "Plant not found"
  ELSE IF request.end_date - request.start_date < 0
  THEN "End date must be after start date"
  ELSE IF request.end_date - request.start_date > MaxDateRange
  THEN "Date range cannot exceed 5 days"
  ELSE ""

NoInvestigation ==
  [pc |-> "none", request |-> None, error |-> "", http |-> "",
   status |-> "", session |-> FALSE, history |-> <<>>]

\* the texts an agent's final response may carry: the raw length and the length
\* of text.strip(); "" , three blanks, ten letters, ten letters between
\* blanks, eleven letters
FinalTexts ==
  {[length |-> 0, stripped |-> 0],
   [length |-> 3, stripped |-> 0],
   [length |-> 10, stripped |-> 10],
   [length |-> 12, stripped |-> 10],
   [length |-> 11, stripped |-> 11]}

\* the events runner.run_async may yield: a tool call, an intermediate text, a
\* final response with one of the texts, the last two also with a text that
\* names @workorder-agent
AgentEvents ==
  {[kind |-> "tool", final |-> FALSE, text |-> None, workorder |-> FALSE],
   [kind |-> "text", final |-> FALSE, text |-> None, workorder |-> FALSE],
   [kind |-> "text", final |-> FALSE, text |-> None, workorder |-> TRUE]}
    \cup {[kind |-> "text", final |-> TRUE, text |-> Some(t), workorder |-> FALSE] :
            t \in FinalTexts}
    \cup {[kind |-> "text", final |-> TRUE,
           text |-> Some([length |-> 11, stripped |-> 11]), workorder |-> TRUE]}

\* the events used where the clients of the stream are followed as well
StreamedAgentEvents ==
  {[kind |-> "tool", final |-> FALSE, text |-> None, workorder |-> FALSE],
   [kind |-> "text", final |-> TRUE,
    text |-> Some([length |-> 11, stripped |-> 11]), workorder |-> FALSE]}

NoRun ==
  [pc |-> "none", left |-> 0, events |-> 0, final_response |-> None,
   workorder |-> FALSE, raised |-> FALSE, terminal |-> "", emitted |-> <<>>]

NoStream == [pc |-> "idle", queue |-> 0, received |-> <<>>, heartbeats |-> 0]

\* what one step of the service may change besides the run's own position: the
\* statuses written to the session, the events handed to _queue_sse_event, the
\* queues
Effects == [history |-> inv.history, emitted |-> run.emitted, queues |-> queues]

\* _queue_sse_event: the event is put on the investigation's queue if one is
\* registered in event_queues, and dropped otherwise
QueueSseEvent(eff, type, status) ==
  LET event == [type |-> type, status |-> status, seq |-> Len(eff.emitted) + 1]
  IN [eff EXCEPT
        !.emitted = Append(@, event),
        !.queues = IF event_queues[Id] # None
                   THEN [@ EXCEPT ![event_queues[Id][1]] = Append(@, event)]
                   ELSE @]

\* _update_status: the session's status is set and a status_update is queued
\* (the session exists from create_investigation on)
UpdateStatus(eff, status) ==
  IF inv.session
  THEN QueueSseEvent([eff EXCEPT !.history = Append(@, status)],
                     "status_update", status)
  ELSE eff

\* the final status were the comparison inclusive
FinalStatusAtLeast(final_response) ==
  IF /\ final_response # None
     /\ final_response[1].length > 0
     /\ final_response[1].stripped >= MinResponseLen
  THEN "completed"
  ELSE "requires_attention"

\* the final status: COMPLETED if final_response is truthy and its stripped
\* text is longer than 10, REQUIRES_ATTENTION otherwise
FinalStatus(final_response) ==
  IF /\ final_response # None
     /\ final_response[1].length > 0
     /\ final_response[1].stripped > MinResponseLen
  THEN "completed"
  ELSE "requires_attention"

\* the step's effects written back, the run moving to r
Commit(eff, r) ==
  /\ run' = [r EXCEPT !.emitted = eff.emitted]
  /\ inv' = [inv EXCEPT !.history = eff.history]
  /\ queues' = eff.queues

\* start_investigation (through the controller's POST): create_investigation
\* validates and creates the session, then the background task is created
StartInvestigation(requests) ==
  /\ inv.pc = "none"
  /\ \E request \in requests :
       LET error == ValidationError(request)
       IN IF error # ""
          THEN /\ inv' = [inv EXCEPT !.pc = "rejected", !.request = Some(request),
                                     !.error = "ValueError", !.http = "400"]
               /\ UNCHANGED run
          ELSE /\ inv' = [inv EXCEPT !.pc = "accepted", !.request = Some(request),
                                     !.http = "200", !.status = "pending",
                                     !.session = TRUE, !.history = <<"pending">>]
               /\ run' = [run EXCEPT !.pc = "scheduled"]
  /\ UNCHANGED <<active_runners, event_queues, queues, streams>>
  /\ UNCHANGED <<toolVars, uiVars, apiVars>>

\* _process_investigation_async up to the wait in _update_status(RUNNING)
RunBegin ==
  /\ run.pc = "scheduled"
  /\ Commit(QueueSseEvent(Effects, "investigation_started", ""),
            [run EXCEPT !.pc = "begun"])
  /\ UNCHANGED <<active_runners, event_queues, streams>>
  /\ UNCHANGED <<toolVars, uiVars, apiVars>>

\* the status becomes RUNNING, the runner is created and stored, and the agent
\* is run; creating the runner or the prompt may raise before it is stored
RunAgent ==
  /\ run.pc = "begun"
  /\ \/ /\ Commit(UpdateStatus(Effects, "running"),
                  [run EXCEPT !.pc = "looping", !.left = MaxAgentEvents])
        /\ active_runners' = active_runners \cup {Id}
     \/ /\ Commit(UpdateStatus(Effects, "running"),
                  [run EXCEPT !.pc = "failing", !.raised = TRUE])
        /\ UNCHANGED active_runners
  /\ UNCHANGED <<event_queues, streams>>
  /\ UNCHANGED <<toolVars, uiVars, apiVars>>

\* the event types one agent event puts on the stream: what
\* _handle_streaming_event queues, and a progress_update for the first event
\* (the author changes from None)
StreamedTypes(event, first) ==
  <<IF event.kind = "tool" THEN "tool_call_request"
    ELSE IF event.final THEN "complete_text_message"
    ELSE "streaming_text_chunk">>
    \o (IF first THEN <<"progress_update">> ELSE <<>>)

RECURSIVE QueueAll(_, _)
QueueAll(eff, types) ==
  IF types = <<>> THEN eff
  ELSE QueueAll(QueueSseEvent(eff, Head(types), ""), Tail(types))

\* one turn of the loop over runner.run_async, which yields one of events
RunEvent(events) ==
  /\ run.pc = "looping"
  /\ run.left > 0
  /\ \E event \in events :
       Commit(QueueAll(Effects, StreamedTypes(event, run.events = 0)),
              [run EXCEPT !.left = @ - 1,
                          !.events = @ + 1,
                          !.workorder = event.workorder,
                          !.final_response =
                             IF event.final THEN event.text ELSE @])
  /\ UNCHANGED <<active_runners, event_queues, streams>>
  /\ UNCHANGED <<toolVars, uiVars, apiVars>>

\* runner.run_async raises
RunRaise ==
  /\ run.pc = "looping"
  /\ run' = [run EXCEPT !.pc = "failing", !.raised = TRUE]
  /\ UNCHANGED <<inv, active_runners, event_queues, queues, streams>>
  /\ UNCHANGED <<toolVars, uiVars, apiVars>>

\* the loop is over: the final status is set, the completion event queued and
\* the runner removed (finally)
RunComplete ==
  /\ run.pc = "looping"
  /\ LET status == FinalStatus(run.final_response)
     IN Commit(QueueSseEvent(UpdateStatus(Effects, status), "completion", status),
               [run EXCEPT !.pc = "cleaned", !.terminal = status])
  /\ active_runners' = active_runners \ {Id}
  /\ UNCHANGED <<event_queues, streams>>
  /\ UNCHANGED <<toolVars, uiVars, apiVars>>

\* except Exception: the status is set to FAILED and the runner removed
RunFail ==
  /\ run.pc = "failing"
  /\ Commit(UpdateStatus(Effects, "failed"),
            [run EXCEPT !.pc = "cleaned", !.terminal = "failed"])
  /\ active_runners' = active_runners \ {Id}
  /\ UNCHANGED <<event_queues, streams>>
  /\ UNCHANGED <<toolVars, uiVars, apiVars>>

\* the statements that follow the finally: when the last event's text names
\* @workorder-agent, _handle_workorder_request is called, else the run ends (an
\* unbound event raises NameError, which is caught)
RunTail ==
  /\ run.pc = "cleaned"
  /\ IF run.events > 0 /\ run.workorder
     THEN Commit(QueueSseEvent(Effects, "workorder_status", "workorder_requested"),
                 [run EXCEPT !.pc = "workorder"])
     ELSE Commit(Effects, [run EXCEPT !.pc = "ended"])
  /\ UNCHANGED <<active_runners, event_queues, streams>>
  /\ UNCHANGED <<toolVars, uiVars, apiVars>>

\* _handle_workorder_request: the work order is stored and announced, and
\* continue_investigation registers a new runner and runs the agent
RunWorkorder ==
  /\ run.pc = "workorder"
  /\ Commit(QueueSseEvent(Effects, "workorder_status", "workorder_created"),
            [run EXCEPT !.pc = "continuing"])
  /\ active_runners' = active_runners \cup {Id}
  /\ UNCHANGED <<event_queues, streams>>
  /\ UNCHANGED <<toolVars, uiVars, apiVars>>

\* continue_investigation ends: with an exception (its loop calls
\* _handle_sub_agent_requests, which the class does not define, or the agent
\* raises), reported as workorder_failed, or without any event
RunContinued ==
  /\ run.pc = "continuing"
  /\ \/ Commit(QueueSseEvent(Effects, "workorder_status", "workorder_failed"),
               [run EXCEPT !.pc = "ended"])
     \/ Commit(Effects, [run EXCEPT !.pc = "ended"])
  /\ UNCHANGED <<active_runners, event_queues, streams>>
  /\ UNCHANGED <<toolVars, uiVars, apiVars>>

Connected == [type |-> "connected", status |-> "", seq |-> 0]
Heartbeat == [type |-> "heartbeat", status |-> "", seq |-> 0]

\* the finally of get_event_stream: the investigation's entry is deleted
DropQueue == [event_queues EXCEPT ![Id] = None]

\* get_event_stream up to its first yield: the queue is created if the
\* investigation has none, and the connected event is yielded
Subscribe(c) ==
  /\ inv.pc = "accepted"
  /\ streams[c].pc = "idle"
  /\ IF event_queues[Id] = None
     THEN /\ queues' = Append(queues, <<>>)
          /\ event_queues' = [event_queues EXCEPT ![Id] = Some(Len(queues) + 1)]
          /\ streams' = [streams EXCEPT ![c].pc = "open",
                                        ![c].queue = Len(queues) + 1,
                                        ![c].received = <<Connected>>]
     ELSE /\ streams' = [streams EXCEPT ![c].pc = "open",
                                        ![c].queue = event_queues[Id][1],
                                        ![c].received = <<Connected>>]
          /\ UNCHANGED <<queues, event_queues>>
  /\ UNCHANGED <<inv, run, active_runners>>
  /\ UNCHANGED <<toolVars, uiVars, apiVars>>

\* the event a LIFO queue would hand out: the newest
NextEventNewest(queue) == queue[Len(queue)]

\* the event asyncio.Queue.get() hands out: the oldest
NextEvent(queue) == Head(queue)

\* queue.get() returns an event, which is yielded; a completion event ends the
\* stream
Receive(c) ==
  /\ streams[c].pc = "open"
  /\ queues[streams[c].queue] # <<>>
  /\ LET event == NextEvent(queues[streams[c].queue])
     IN /\ queues' = [queues EXCEPT ![streams[c].queue] = Tail(@)]
        /\ IF event.type = "completion"
           THEN /\ streams' = [streams EXCEPT ![c].pc = "ended",
                                              ![c].received = Append(@, event)]
                /\ event_queues' = DropQueue
           ELSE /\ streams' = [streams EXCEPT ![c].received = Append(@, event)]
                /\ UNCHANGED event_queues
  /\ UNCHANGED <<inv, run, active_runners>>
  /\ UNCHANGED <<toolVars, uiVars, apiVars>>

\* nothing arrives within the timeout: a heartbeat is yielded
Timeout(c) ==
  /\ streams[c].pc = "open"
  /\ queues[streams[c].queue] = <<>>
  /\ streams[c].heartbeats < MaxHeartbeats
  /\ streams' = [streams EXCEPT ![c].received = Append(@, Heartbeat),
                                ![c].heartbeats = @ + 1]
  /\ UNCHANGED <<inv, run, active_runners, event_queues, queues>>
  /\ UNCHANGED <<toolVars, uiVars, apiVars>>

\* the client goes away: the generator is closed at its yield
Disconnect(c) ==
  /\ streams[c].pc = "open"
  /\ streams' = [streams EXCEPT ![c].pc = "closed"]
  /\ event_queues' = DropQueue
  /\ UNCHANGED <<inv, run, active_runners, queues>>
  /\ UNCHANGED <<toolVars, uiVars, apiVars>>

\* the steps of _process_investigation_async up to the end of its finally
\* and the check that follows it
RunStep(events) ==
  \/ RunBegin
  \/ RunAgent
  \/ RunEvent(events)
  \/ RunRaise
  \/ RunComplete
  \/ RunFail
  \/ RunTail

(* ------------------------------------------------------ the UI summarizer *)
\* A string is modelled as the sequence of its characters.
Whitespace == {" ", "\t", "\n"}

\* str.lower() on one character
LowerChar(ch) ==
  CASE ch = "A" -> "a"
    [] ch = "B" -> "b"
    [] ch = "C" -> "c"
    [] ch = "D" -> "d"
    [] ch = "E" -> "e"
    [] ch = "F" -> "f"
    [] ch = "G" -> "g"
    [] ch = "H" -> "h"
    [] ch = "I" -> "i"
    [] ch = "J" -> "j"
    [] ch = "K" -> "k"
    [] ch = "L" -> "l"
    [] ch = "M" -> "m"
    [] ch = "N" -> "n"
    [] ch = "O" -> "o"
    [] ch = "P" -> "p"
    [] ch = "Q" -> "q"
    [] ch = "R" -> "r"
    [] ch = "S" -> "s"
    [] ch = "T" -> "t"
    [] ch = "U" -> "u"
    [] ch = "V" -> "v"
    [] ch = "W" -> "w"
    [] ch = "X" -> "x"
    [] ch = "Y" -> "y"
    [] ch = "Z" -> "z"
    [] OTHER -> ch

\* str.lower()
Lower(s) == Column([k \in 1..Len(s) |-> LowerChar(s[k])], Len(s))

\* sub in s
Contains(s, sub) ==
  \E k \in 1..(Len(s) - Len(sub) + 1) : SubSeq(s, k, k + Len(sub) - 1) = sub

RECURSIVE Split(_)
\* str.split(): the maximal runs of characters that are not whitespace
Split(s) ==
  IF s = <<>> THEN <<>>
  ELSE IF Head(s) \in Whitespace THEN Split(Tail(s))
  ELSE LET stops == {k \in 1..Len(s) : s[k] \in Whitespace}
           end == IF stops = {} THEN Len(s) + 1
                  ELSE CHOOSE k \in stops : \A j \in stops : k <= j
       IN <<SubSeq(s, 1, end - 1)>> \o Split(SubSeq(s, end, Len(s)))

RECURSIVE Join(_)
\* " ".join(words)
Join(words) ==
  IF words = <<>> THEN <<>>
  ELSE IF Len(words) = 1 THEN words[1]
  ELSE words[1] \o <<" ">> \o Join(Tail(words))

\* words[:n]
FirstWords(words, n) == SubSeq(words, 1, IF Len(words) < n THEN Len(words) ELSE n)

\* the keywords the heuristic looks for in the lowered response
Keywords ==
  [error |->
      <<"e", "r", "r", "o", "r">>,
   failed |->
      <<"f", "a", "i", "l", "e", "d">>,
   completed |->
      <<"c", "o", "m", "p", "l", "e", "t", "e", "d">>,
   analysis |->
      <<"a", "n", "a", "l", "y", "s", "i", "s">>,
   solar |->
      <<"s", "o", "l", "a", "r">>,
   analyzing |->
      <<"a", "n", "a", "l", "y", "z", "i", "n", "g">>,
   processing |->
      <<"p", "r", "o", "c", "e", "s", "s", "i", "n", "g">>,
   investigating |->
      <<"i", "n", "v", "e", "s", "t", "i", "g", "a", "t", "i", "n", "g">>]

\* the fixed summaries of the heuristic
Summaries ==
  [error |->
      <<"E", "r", "r", "o", "r", " ", "o", "c", "c", "u", "r", "r", "e", "d",
        " ", "d", "u", "r", "i", "n", "g", " ", "a", "g", "e", "n", "t", " ",
        "p", "r", "o", "c", "e", "s", "s", "i", "n", "g", " ", "o", "p", "e",
        "r", "a", "t", "i", "o", "n">>,
   solar |->
      <<"S", "o", "l", "a", "r", " ", "a", "n", "a", "l", "y", "s", "i", "s",
        " ", "c", "o", "m", "p", "l", "e", "t", "e", "d", " ", "w", "i", "t",
        "h", " ", "f", "i", "n", "d", "i", "n", "g", "s", " ", "a", "n", "d",
        " ", "r", "e", "c", "o", "m", "m", "e", "n", "d", "a", "t", "i", "o",
        "n", "s">>,
   analysis |->
      <<"A", "n", "a", "l", "y", "s", "i", "s", " ", "c", "o", "m", "p", "l",
        "e", "t", "e", "d", " ", "w", "i", "t", "h", " ", "f", "i", "n", "d",
        "i", "n", "g", "s", " ", "a", "n", "d", " ", "r", "e", "c", "o", "m",
        "m", "e", "n", "d", "a", "t", "i", "o", "n", "s", " ", "a", "v", "a",
        "i", "l", "a", "b", "l", "e">>,
   analyzing |->
      <<"A", "g", "e", "n", "t", " ", "c", "u", "r", "r", "e", "n", "t", "l",
        "y", " ", "a", "n", "a", "l", "y", "z", "i", "n", "g", " ", "d", "a",
        "t", "a", " ", "a", "n", "d", " ", "p", "r", "o", "c", "e", "s", "s",
        "i", "n", "g", " ", "r", "e", "q", "u", "e", "s", "t">>,
   investigating |->
      <<"I", "n", "v", "e", "s", "t", "i", "g", "a", "t", "i", "o", "n", " ",
        "i", "n", " ", "p", "r", "o", "g", "r", "e", "s", "s", " ", "g", "a",
        "t", "h", "e", "r", "i", "n", "g", " ", "d", "a", "t", "a", " ", "a",
        "n", "d", " ", "i", "n", "s", "i", "g", "h", "t", "s">>,
   processed |->
      <<"A", "g", "e", "n", "t", " ", "r", "e", "s", "p", "o", "n", "s", "e",
        " ", "p", "r", "o", "c", "e", "s", "s", "e", "d", " ", "s", "u", "c",
        "c", "e", "s", "s", "f", "u", "l", "l", "y">>]

\* the words longer than two characters among the first 15
MeaningfulWords(words) == SelectSeq(FirstWords(words, SummaryWindow),
                                    LAMBDA w : Len(w) > ShortWordLen)

\* the fallback of the heuristic: the first ten meaningful words when there are
\* six or more, else a fixed sentence
FallbackSummary(words) ==
  LET meaningful == FirstWords(MeaningfulWords(words), SummaryWords)
  IN IF Len(meaningful) >= MinMeaningfulWords
     THEN Join(FirstWords(meaningful, SummaryWords))
     ELSE Summaries.processed

\* the heuristic summary, chosen by the keywords the lowered response holds
HeuristicSummary(response) ==
  LET low == Lower(response)
  IN IF Contains(low, Keywords.error) \/ Contains(low, Keywords.failed)
     THEN Summaries.error
     ELSE IF Contains(low, Keywords.completed) \/ Contains(low, Keywords.analysis)
     THEN IF Contains(low, Keywords.solar) THEN Summaries.solar ELSE Summaries.analysis
     ELSE IF Contains(low, Keywords.analyzing) \/ Contains(low, Keywords.processing)
     THEN Summaries.analyzing
     ELSE IF Contains(low, Keywords.investigating) THEN Summaries.investigating
     ELSE FallbackSummary(Split(response))

\* "Ensure exactly 10 words or fewer"
TruncateSummary(text) ==
  IF Len(Split(text)) > SummaryWords
  THEN Join(FirstWords(Split(text), SummaryWords))
  ELSE text

\* the summary made of every meaningful word of the window, and not truncated
GenerateUiSummaryUntruncated(response) ==
  LET meaningful == MeaningfulWords(Split(response))
  IN IF Len(meaningful) >= MinMeaningfulWords
     THEN Join(meaningful)
     ELSE Summaries.processed

\* generate_ui_summary(agent_response) for a string
GenerateUiSummary(response) == TruncateSummary(HeuristicSummary(response))

\* the words agent responses are made of here: a long and a short filler word
\* and the words that hold a keyword
LongWord ==
  <<"d", "a", "t", "a">>

ShortWord ==
  <<"o", "f">>

KeywordWords ==
  {<<"E", "r", "r", "o", "r", ":">>,
   <<"F", "A", "I", "L", "E", "D">>,
   <<"c", "o", "m", "p", "l", "e", "t", "e", "d", ".">>,
   <<"A", "n", "a", "l", "y", "s", "i", "s">>,
   <<"S", "o", "l", "a", "r">>,
   <<"a", "n", "a", "l", "y", "z", "i", "n", "g">>,
   <<"P", "r", "o", "c", "e", "s", "s", "i", "n", "g">>,
   <<"i", "n", "v", "e", "s", "t", "i", "g", "a", "t", "i", "n", "g">>}

RECURSIVE Filler(_, _)
\* n filler words, every p-th of them short (none if p = 0)
Filler(n, p) ==
  IF n = 0 THEN <<>>
  ELSE Append(Filler(n - 1, p),
              IF p > 0 /\ n % p = 0 THEN ShortWord ELSE LongWord)

\* the responses handed to the summarizer: up to MaxWords filler words, then
\* the given words, between blanks and a newline if padded
ResponseOf(n, p, extra, padded) ==
  LET text == Join(Filler(n, p) \o extra)
  IN IF padded THEN <<" ", " ">> \o text \o <<" ", "\n">> ELSE text

Responses ==
  {ResponseOf(n, p, extra, padded) :
     n \in 0..MaxWords, p \in 0..3,
     extra \in {<<>>} \cup {<<w>> : w \in KeywordWords}
                 \cup {<<w, LongWord>> : w \in KeywordWords},
     padded \in BOOLEAN}

NoSummary == [pc |-> "idle", response |-> <<>>, result |-> <<>>, raised |-> FALSE]

\* one call of generate_ui_summary: the body runs inside try / except
\* Exception, and no statement of it raises on a string
Summarize ==
  /\ summary.pc = "idle"
  /\ \E response \in Responses :
       summary' = [pc |-> "done", response |-> response,
                   result |-> GenerateUiSummary(response), raised |-> FALSE]
  /\ UNCHANGED <<toolVars, svcVars, apiVars>>

(* ------------------------------------- the database-backed service's start *)
\* a final response as the status rule sees it: the length of its stripped
\* text and whether it holds one of the keywords complete, concluded, final,
\* summary; "No response received" and "Empty response" are of the third kind
DbResponses ==
  {[stripped |-> 5, keyword |-> TRUE],
   [stripped |-> 10, keyword |-> TRUE],
   [stripped |-> 11, keyword |-> FALSE],
   [stripped |-> 11, keyword |-> TRUE]}

\* the status an attempt that ran through sets
AttemptStatus(response) ==
  IF response.stripped > MinResponseLen /\ response.keyword
  THEN "completed"
  ELSE "requires_attention"

\* the attempt were always the last one
LastAttemptAtOnce(attempt) == TRUE

\* attempt == max_retries, the attempts counted from 0
LastAttempt(attempt) == attempt = MaxRetries

NoStart ==
  [pc |-> "none", request |-> None, attempt |-> 0, attempts |-> 0,
   failures |-> 0, status |-> "", history |-> <<>>, error_message |-> FALSE,
   raised |-> FALSE]

\* _update_investigation_status on the session _create_investigation made
StartStatus(s, status, error) ==
  [s EXCEPT !.status = status, !.history = Append(@, status),
            !.error_message = @ \/ error]

\* _create_investigation: the request is validated and the session created
\* with status PENDING, or ValueError leaves start_investigation
StartCreate ==
  /\ start.pc = "none"
  /\ \E request \in Requests :
       start' = IF ValidationError(request) # ""
                THEN [start EXCEPT !.pc = "rejected", !.request = Some(request),
                                   !.raised = TRUE]
                ELSE [StartStatus(start, "pending", FALSE) EXCEPT
                        !.pc = "created", !.request = Some(request)]
  /\ UNCHANGED <<active_connections, broadcast, sockets>>
  /\ UNCHANGED <<toolVars, svcVars, uiVars>>

\* the status becomes RUNNING and the agent, the runner and the prompt are
\* made; making them may raise, which the outer except handles
StartPrepare ==
  /\ start.pc = "created"
  /\ \E ok \in BOOLEAN :
       start' = [StartStatus(start, "running", FALSE) EXCEPT
                   !.pc = IF ok THEN "attempting" ELSE "failing"]
  /\ UNCHANGED <<active_connections, broadcast, sockets>>
  /\ UNCHANGED <<toolVars, svcVars, uiVars>>

\* one turn of the retry loop: runner.run_async runs through and the status
\* is set from the final response, or it raises and the turn is either the
\* last, which sets FAILED and raises again, or followed by a sleep
StartAttempt ==
  /\ start.pc = "attempting"
  /\ \/ \E response \in DbResponses :
          start' = [StartStatus(start, AttemptStatus(response), FALSE) EXCEPT
                      !.pc = "returned", !.attempts = @ + 1]
     \/ start' = IF LastAttempt(start.attempt)
                 THEN [StartStatus(start, "failed", TRUE) EXCEPT
                         !.pc = "failing", !.attempts = @ + 1,
                         !.failures = @ + 1]
                 ELSE [start EXCEPT !.pc = "sleeping", !.attempts = @ + 1,
                                    !.failures = @ + 1]
  /\ UNCHANGED <<active_connections, broadcast, sockets>>
  /\ UNCHANGED <<toolVars, svcVars, uiVars>>

\* asyncio.sleep(1) is over: the loop goes on to the next attempt
StartRetry ==
  /\ start.pc = "sleeping"
  /\ start' = [start EXCEPT !.pc = "attempting", !.attempt = @ + 1]
  /\ UNCHANGED <<active_connections, broadcast, sockets>>
  /\ UNCHANGED <<toolVars, svcVars, uiVars>>

\* the outer except: the status is set to FAILED with the error message and
\* the exception raised again
StartGiveUp ==
  /\ start.pc = "failing"
  /\ start' = [StartStatus(start, "failed", TRUE) EXCEPT
                 !.pc = "raised", !.raised = TRUE]
  /\ UNCHANGED <<active_connections, broadcast, sockets>>
  /\ UNCHANGED <<toolVars, svcVars, uiVars>>

(* ------------------------------------- the websocket connection manager *)
\* the investigations sockets connect for: the one that is broadcast to, and
\* another
Rooms == {Id, "other"}

\* the websockets; socket 0 connects for the other investigation
Sockets == 0..MaxSockets
RoomOf(s) == IF s = 0 THEN "other" ELSE Id

\* active_connections[room], empty when the key is absent
Registered(room) ==
  IF active_connections[room] = None THEN {} ELSE active_connections[room][1]

NoBroadcast ==
  [pc |-> "idle", size |-> 0, linked |-> FALSE, passed |-> {}, sent |-> {},
   disconnected |-> {}, steady |-> {}, raised |-> ""]

\* connect(websocket, investigation_id): after accept() the socket is added
\* to the investigation's set, created if the key is absent.  A set that is
\* being iterated may place the new element before or after the iterator.
Connect(s) ==
  /\ sockets[s] = "new"
  /\ sockets' = [sockets EXCEPT ![s] = "open"]
  /\ active_connections' =
       [active_connections EXCEPT ![RoomOf(s)] = Some(Registered(RoomOf(s)) \cup {s})]
  /\ IF broadcast.pc = "sending" /\ broadcast.linked /\ RoomOf(s) = Id
     THEN \E behind \in BOOLEAN :
            broadcast' = IF behind
                         THEN [broadcast EXCEPT !.passed = @ \cup {s}]
                         ELSE broadcast
     ELSE UNCHANGED broadcast
  /\ UNCHANGED start
  /\ UNCHANGED <<toolVars, svcVars, uiVars>>

\* disconnect(websocket, investigation_id): the socket is discarded and the
\* key deleted when its set is left empty
ManagerDisconnect(s) ==
  /\ sockets[s] = "open"
  /\ sockets' = [sockets EXCEPT ![s] = "closed"]
  /\ active_connections' =
       [active_connections EXCEPT
          ![RoomOf(s)] = IF Registered(RoomOf(s)) \ {s} = {} THEN None
                         ELSE Some(Registered(RoomOf(s)) \ {s})]
  /\ broadcast' =
       IF RoomOf(s) = Id
       THEN [broadcast EXCEPT
               !.steady = @ \ {s},
               !.linked = @ /\ Registered(Id) \ {s} # {}]
       ELSE broadcast
  /\ UNCHANGED start
  /\ UNCHANGED <<toolVars, svcVars, uiVars>>

\* broadcast_to_investigation up to its first await: nothing to do without
\* the key or with an empty set, else the iteration over the investigation's
\* set begins and the message is sent to the element it yields first
BroadcastBegin ==
  /\ broadcast.pc = "idle"
  /\ IF Registered(Id) = {}
     THEN broadcast' = [broadcast EXCEPT !.pc = "done"]
     ELSE \E s \in Registered(Id) : \E ok \in BOOLEAN :
            broadcast' = [broadcast EXCEPT
                            !.pc = "sending",
                            !.size = Cardinality(Registered(Id)),
                            !.linked = TRUE,
                            !.steady = Registered(Id),
                            !.passed = {s},
                            !.sent = {s},
                            !.disconnected = IF ok THEN {} ELSE {s}]
  /\ UNCHANGED <<start, active_connections, sockets>>
  /\ UNCHANGED <<toolVars, svcVars, uiVars>>

\* a later turn of the for statement, after send_text was awaited.  The set
\* iterator raises RuntimeError when the set it iterates has changed size;
\* else it yields an element it has not passed, to which the message is sent
\* (a failing send is noted), or it is exhausted and the sockets noted are
\* discarded from the investigation's set
BroadcastStep ==
  /\ broadcast.pc = "sending"
  /\ LET object == IF broadcast.linked THEN Registered(Id) ELSE {}
     IN IF Cardinality(object) # broadcast.size
        THEN /\ broadcast' = [broadcast EXCEPT !.pc = "done",
                                               !.raised = "RuntimeError"]
             /\ UNCHANGED active_connections
        ELSE IF object \ broadcast.passed = {}
        THEN IF broadcast.disconnected # {} /\ active_connections[Id] = None
             THEN /\ broadcast' = [broadcast EXCEPT !.pc = "done",
                                                    !.raised = "KeyError"]
                  /\ UNCHANGED active_connections
             ELSE /\ broadcast' = [broadcast EXCEPT !.pc = "done"]
                  /\ active_connections' =
                       IF broadcast.disconnected = {} THEN active_connections
                       ELSE [active_connections EXCEPT
                               ![Id] = Some(Registered(Id) \ broadcast.disconnected)]
        ELSE /\ \E s \in object \ broadcast.passed : \E ok \in BOOLEAN :
                  broadcast' = [broadcast EXCEPT
                                  !.passed = @ \cup {s},
                                  !.sent = @ \cup {s},
                                  !.disconnected = IF ok THEN @ ELSE @ \cup {s}]
             /\ UNCHANGED active_connections
  /\ UNCHANGED <<start, sockets>>
  /\ UNCHANGED <<toolVars, svcVars, uiVars>>

(* ------------------------------------------------------ the state machine *)
\* the session state after the agent's setup callback
Init ==
  /\ calls = [c \in Callers |-> Idle]
  /\ state = [filtered_plant_timeseries_df |-> None,
              problematic_five_minutes_pr |-> Some(<<>>)]
  /\ inv = NoInvestigation
  /\ run = NoRun
  /\ active_runners = {}
  /\ event_queues = [i \in Investigations |-> None]
  /\ queues = <<>>
  /\ streams = [c \in Clients |-> NoStream]
  /\ summary = NoSummary
  /\ start = NoStart
  /\ active_connections = [i \in Rooms |-> None]
  /\ broadcast = NoBroadcast
  /\ sockets = [s \in Sockets |-> "new"]

\* the seed of a forest left unseeded: drawn afresh by every invocation
ForestSeedUnset(c) == c

\* the seed of the forest fitted by invocation c: random_state=42
ForestSeed(c) == RandomState

\* the ml_anomaly columns of the fits made so far on the same data with the
\* seed of invocation c
EarlierFits(c, data) ==
  {calls[d].flags.ml_anomaly :
     d \in {e \in Callers : /\ calls[e].pc \in {"returned", "done"}
                            /\ calls[e].input = data
                            /\ ForestSeed(e) = ForestSeed(c)}}

\* a fit is a function of the data and the seed: one that repeats an earlier
\* fit yields the earlier fit's column
RepeatsEarlierFit(c, out) ==
  \/ out.pc # "returned"
  \/ EarlierFits(c, out.input) = {}
  \/ out.flags.ml_anomaly \in EarlierFits(c, out.input)

\* the state were the call to replace it by its own key alone
FilterWritesAlone(st, out) ==
  IF out.pc = "returned"
  THEN [filtered_plant_timeseries_df |-> Some(out.result),
        problematic_five_minutes_pr |-> None]
  ELSE st

\* the session state a call with outcome out leaves: the JSON string under
\* filtered_plant_timeseries_df when it returns, nothing when it raises
FilterWrites(st, out) ==
  IF out.pc = "returned"
  THEN [st EXCEPT !.filtered_plant_timeseries_df = Some(out.result)]
  ELSE st

\* one invocation of the tool: the function holds no await, so it runs from
\* json.loads to its return
\* (or its exception) in one step of the event loop; its argument is one of
\* inputs
Invoke(c, inputs) ==
  /\ calls[c].pc = "idle"
  /\ \E data \in inputs : \E o \in ModelOutcomes(data) :
       LET out == FilterOutcome(data, o[1], o[2])
       IN /\ RepeatsEarlierFit(c, out)
          /\ calls' = [calls EXCEPT ![c] = out]
          /\ state' = FilterWrites(state, out)
  /\ UNCHANGED <<svcVars, uiVars, apiVars>>

\* the agent that called the tool reads {filtered_plant_timeseries_df}, where
\* its instruction says the filtered data of its call is stored
ReadState(c) ==
  /\ calls[c].pc = "returned"
  /\ calls' = [calls EXCEPT ![c].pc = "done",
                            ![c].seen = state.filtered_plant_timeseries_df]
  /\ UNCHANGED state
  /\ UNCHANGED <<svcVars, uiVars, apiVars>>

Next ==
  \/ Invoke(1, Batches)
  \/ ReadState(1)

Spec == Init /\ [][Next]_vars

NextConc ==
  \/ \E c \in Callers : Invoke(c, ConcBatches)
  \/ \E c \in Callers : ReadState(c)

SpecConc == Init /\ [][NextConc]_vars

\* runs of the filter on days whose module temperatures all differ
NextTemp ==
  \/ Invoke(1, TempBatches)
  \/ ReadState(1)

SpecTemp == Init /\ [][NextTemp]_vars

\* two runs in one session, one after the other or interleaved with the reads
NextTwice ==
  \/ \E c \in TwoRuns : Invoke(c, TwiceBatches)
  \/ \E c \in TwoRuns : ReadState(c)

SpecTwice == Init /\ [][NextTwice]_vars

\* requests of every kind, each accepted one followed by its run
NextStart ==
  \/ StartInvestigation(Requests)
  \/ RunStep(AgentEvents)
  \/ RunWorkorder
  \/ RunContinued

SpecStart == Init /\ [][NextStart]_vars

\* one investigation, its run, and the clients of its event stream
NextService ==
  \/ StartInvestigation(RunRequests)
  \/ RunStep(StreamedAgentEvents)
  \/ \E c \in Watchers : Subscribe(c)
  \/ \E c \in Watchers : Receive(c)
  \/ \E c \in Watchers : Timeout(c)
  \/ \E c \in Watchers : Disconnect(c)

SpecService == Init /\ [][NextService]_vars

\* one investigation, its run, and several clients of its event stream at
\* the same time
NextFanout ==
  \/ StartInvestigation(RunRequests)
  \/ RunStep(StreamedAgentEvents)
  \/ \E c \in Clients : Subscribe(c)
  \/ \E c \in Clients : Receive(c)
  \/ \E c \in Clients : Timeout(c)
  \/ \E c \in Clients : Disconnect(c)

SpecFanout == Init /\ [][NextFanout]_vars

\* start_investigation of the database-backed service
NextDb ==
  \/ StartCreate
  \/ StartPrepare
  \/ StartAttempt
  \/ StartRetry
  \/ StartGiveUp

SpecDb == Init /\ [][NextDb]_vars

\* a broadcast to the investigation's websockets while websockets connect and
\* disconnect
NextWs ==
  \/ \E s \in Sockets : Connect(s)
  \/ \E s \in Sockets : ManagerDisconnect(s)
  \/ BroadcastBegin
  \/ BroadcastStep

SpecWs == Init /\ [][NextWs]_vars

\* the summarizer applied to the responses
NextSummary == Summarize

SpecSummary == Init /\ [][NextSummary]_vars

\* a session without the key problematic_five_minutes_pr (None: no such key;
\* Some(list): the key holds list)
InitSession ==
  /\ calls = [c \in Callers |-> Idle]
  /\ state = [filtered_plant_timeseries_df |-> None,
              problematic_five_minutes_pr |-> None]
  /\ inv = NoInvestigation
  /\ run = NoRun
  /\ active_runners = {}
  /\ event_queues = [i \in Investigations |-> None]
  /\ queues = <<>>
  /\ streams = [c \in Clients |-> NoStream]
  /\ summary = NoSummary
  /\ start = NoStart
  /\ active_connections = [i \in Rooms |-> None]
  /\ broadcast = NoBroadcast
  /\ sockets = [s \in Sockets |-> "new"]

\* the state were setup to start every agent run from an empty list
SetupStateFresh(st) ==
  [filtered_plant_timeseries_df |-> None,
   problematic_five_minutes_pr |-> Some(<<>>)]

\* the state setup leaves: the list created if the key is absent, and
\* filtered_plant_timeseries_df set to None
SetupState(st) ==
  [filtered_plant_timeseries_df |-> None,
   problematic_five_minutes_pr |->
     IF st.problematic_five_minutes_pr = None THEN Some(<<>>)
     ELSE st.problematic_five_minutes_pr]

\* the agent's before_agent_callback
Setup ==
  /\ state' = SetupState(state)
  /\ UNCHANGED calls
  /\ UNCHANGED <<svcVars, uiVars, apiVars>>

\* the list under problematic_five_minutes_pr, empty when the key is absent
StoredRows(st) ==
  IF st.problematic_five_minutes_pr = None THEN <<>>
  ELSE st.problematic_five_minutes_pr[1]

\* the strings the agent may hand to append_problematic_rows
RowStrings == {"rowsA", "rowsB"}

\* append_problematic_rows(rows, tool_context): the list is created if the key
\* is absent, rows appended to it, and the list stored under the key
AppendProblematicRows ==
  /\ Len(StoredRows(state)) < MaxAppends
  /\ \E rows \in RowStrings :
       state' = [state EXCEPT
                   !.problematic_five_minutes_pr =
                      Some(Append(StoredRows(state), rows))]
  /\ UNCHANGED calls
  /\ UNCHANGED <<svcVars, uiVars, apiVars>>

\* one session of the timeseries agent: its setup callback and its tools, in
\* any order
NextSession ==
  \/ Setup
  \/ AppendProblematicRows
  \/ Invoke(1, ConcBatches)
  \/ ReadState(1)

SpecSession == InitSession /\ [][NextSession]_vars

(* ------------------------------------------------------------- the claims *)
Finished == {"returned", "done"}

\* the input records all carry the five required fields
WellFormed(data) == \A i \in 1..Len(data) : OutputColumns \subseteq DOMAIN data[i]

\* the input record restricted to the five output fields
Restricted(record) == [c \in OutputColumns |-> record[c]]

Range(seq) == {seq[k] : k \in 1..Len(seq)}

\* the position in data of the record stamped d
PositionOf(data, d) == CHOOSE i \in 1..Len(data) : data[i][KeyDatetime] = d

HybridFlag(flags, i) ==
  \/ flags.low_yield[i]
  \/ flags.power_drop[i]
  \/ flags.stat_outlier[i]
  \/ flags.ml_anomaly[i]
  \/ flags.temp_outlier[i]

\* C1 (as claimed): every returned record is one of the call's input records
\* restricted to the five fields, unaltered, and no input record is returned
\* twice.
C1_OutputIsSubsetOfInput ==
  \A c \in Callers :
    (calls[c].pc \in Finished /\ WellFormed(calls[c].input)) =>
      /\ \A k \in 1..Len(calls[c].result) :
           \E i \in 1..Len(calls[c].input) :
             calls[c].result[k] = Restricted(calls[c].input[i])
      /\ \A k, l \in 1..Len(calls[c].result) :
           k # l => calls[c].result[k] # calls[c].result[l]

C3_OutputIffHybridFlags ==
  \A c \in Callers :
    calls[c].pc \in Finished =>
      /\ Len(calls[c].result) = Len(calls[c].rows)
      /\ \A i \in 1..Len(calls[c].input) :
           (\E k \in 1..Len(calls[c].result) :
              calls[c].result[k][KeyDatetime] = calls[c].input[i][KeyDatetime])
             <=> HybridFlag(calls[c].flags, i)

\* a call left out a record that the exploratory rule (irradiance > 400 and
\* PR < 70) and exploratory_final select, and returned another record
C3_Witness ==
  \E c \in Callers :
    /\ calls[c].pc \in Finished
    /\ calls[c].result # <<>>
    /\ \E i \in 1..Len(calls[c].input) :
         /\ ExploratoryFinal(DataFrame(calls[c].input))[i]
         /\ \A k \in 1..Len(calls[c].result) :
              calls[c].result[k][KeyDatetime] # calls[c].input[i][KeyDatetime]

\* C4 (as claimed): the detector is fitted exactly when at least 10 complete
\* feature rows exist, and ml_anomaly is false throughout when it is not.
C4_FittedFromTenRows ==
  \A c \in Callers :
    calls[c].pc \in Finished =>
      /\ calls[c].fitted <=>
           Cardinality(MlFeatures(DataFrame(calls[c].input))) >= MlMinRows
      /\ ~calls[c].fitted =>
           \A i \in 1..Len(calls[c].input) : ~calls[c].flags.ml_anomaly[i]

\* C4 (amended): the detector is fitted exactly when more than 10 (at least
\* 11) complete feature rows exist; with 10 or fewer, ml_anomaly is false for
\* every record.
C4_FittedAboveTenRows ==
  \A c \in Callers :
    calls[c].pc \in Finished =>
      /\ calls[c].fitted <=>
           Cardinality(MlFeatures(DataFrame(calls[c].input))) >= MlMinRows + 1
      /\ ~calls[c].fitted =>
           \A i \in 1..Len(calls[c].input) : ~calls[c].flags.ml_anomaly[i]

\* a call on exactly 11 complete rows fitted the detector, which flagged a row
C4_Witness ==
  \E c \in Callers :
    /\ calls[c].pc \in Finished
    /\ Cardinality(MlFeatures(DataFrame(calls[c].input))) = MlMinRows + 1
    /\ calls[c].fitted
    /\ \E i \in 1..Len(calls[c].input) : calls[c].flags.ml_anomaly[i]

\* C5 (as claimed): on a JSON array, of any length, of records that carry the
\* five fields, the call returns and does not raise.
C5_NeverRaises ==
  \A c \in Callers :
    (calls[c].pc # "idle" /\ WellFormed(calls[c].input)) =>
      calls[c].pc \in Finished

\* C6 (as claimed): with fewer records than the ML and decomposition minimums
\* the call returns, ml_anomaly and residual_anomaly are false for every
\* record, and low_yield, power_drop and stat_outlier are evaluated on every
\* record.
C6_GracefulDegradation ==
  \A c \in Callers :
    (/\ calls[c].pc # "idle"
     /\ WellFormed(calls[c].input)
     /\ Len(calls[c].input) < MlMinRows) =>
      /\ calls[c].pc \in Finished
      /\ \A i \in 1..Len(calls[c].input) :
           /\ ~calls[c].flags.ml_anomaly[i]
           /\ ~calls[c].flags.residual_anomaly[i]
      /\ \A d \in {"low_yield", "power_drop", "stat_outlier"} :
           Len(calls[c].flags[d]) = Len(calls[c].input)

\* C7 (as claimed): when a record lacks active_power_effective_kw the call
\* fails with MalformedInputError before any detector is evaluated.
C7_MissingPowerIsRejected ==
  \A c \in Callers :
    (/\ calls[c].pc # "idle"
     /\ \E i \in 1..Len(calls[c].input) : KeyPower \notin DOMAIN calls[c].input[i]) =>
      /\ calls[c].pc = "raised"
      /\ calls[c].error = "MalformedInputError"
      /\ calls[c].ran = {}

\* C8: the returned records appear in the relative order their records have
\* in the input.
C8_OrderPreserved ==
  \A c \in Callers :
    calls[c].pc \in Finished =>
      \A k, l \in 1..Len(calls[c].result) :
        k < l =>
          PositionOf(calls[c].input, calls[c].result[k][KeyDatetime])
            < PositionOf(calls[c].input, calls[c].result[l][KeyDatetime])

\* a call returned at least two records
C8_Witness ==
  \E c \in Callers : calls[c].pc \in Finished /\ Len(calls[c].result) >= 2

\* the batch with the records at positions i and i + 1 exchanged
SwapAdjacent(data, i) ==
  [k \in 1..Len(data) |->
     IF k = i THEN data[i + 1] ELSE IF k = i + 1 THEN data[i] ELSE data[k]]

\* the datetimes of the records a call on data returns, when the fitted
\* models flag the records stamped mlStamps
FlaggedStamps(data, mlStamps) ==
  LET ml == {i \in 1..Len(data) : data[i][KeyDatetime] \in mlStamps}
      out == FilterOutcome(data, ml, {})
  IN {out.result[k][KeyDatetime] : k \in 1..Len(out.result)}

\* C9 (as claimed): listing the same records in another order yields the same
\* flagged set; stated for the exchange of two neighbouring records, of which
\* every reordering is composed.
C9_OrderIndependent ==
  \A c \in Callers :
    (calls[c].pc \in Finished /\ WellFormed(calls[c].input)) =>
      LET data == calls[c].input
          mlStamps == {data[i][KeyDatetime] :
                         i \in {j \in 1..Len(data) : calls[c].flags.ml_anomaly[j]}}
      IN \A i \in 1..(Len(data) - 1) :
           FlaggedStamps(SwapAdjacent(data, i), mlStamps)
             = {calls[c].result[k][KeyDatetime] : k \in 1..Len(calls[c].result)}

\* C10 (as claimed): what an invocation returns and what it leaves for its
\* caller in the session state depend on its own input alone.
C10_CallerSeesOwnResult ==
  \A c \in Callers :
    /\ calls[c].pc \in Finished =>
         \E o \in ModelOutcomes(calls[c].input) :
           calls[c].result = FilterOutcome(calls[c].input, o[1], o[2]).result
    /\ calls[c].pc = "done" => calls[c].seen = Some(calls[c].result)

Field(c, i, key) == calls[c].input[i][key]

\* C12: low_yield is true for a record exactly when its irradiance is above
\* 400 and its PR below 60, both strictly.
C12_LowYieldStrict ==
  \A c \in Callers :
    (calls[c].pc \in Finished /\ WellFormed(calls[c].input)) =>
      \A i \in 1..Len(calls[c].input) :
        calls[c].flags.low_yield[i] <=>
          /\ \/ Field(c, i, KeyIrr)[1] > LowYieldIrradiance
             \/ /\ Field(c, i, KeyIrr)[1] = LowYieldIrradiance
                /\ Field(c, i, KeyIrr)[2] > 0
          /\ Field(c, i, KeyPr)[1] <= LowYieldPr - 1

\* a call flagged a record with irradiance 401 and a PR below 60
C12_Witness ==
  \E c \in Callers :
    /\ calls[c].pc \in Finished
    /\ \E i \in 1..Len(calls[c].input) :
         /\ KeyIrr \in DOMAIN calls[c].input[i]
         /\ Field(c, i, KeyIrr) = <<LowYieldIrradiance + 1, 0>>
         /\ calls[c].flags.low_yield[i]

\* C13: power_drop is true for a record exactly when it has a predecessor and
\* its power minus the predecessor's is below -100, strictly; the first record
\* is never flagged.
C13_PowerDropStrict ==
  \A c \in Callers :
    (calls[c].pc \in Finished /\ WellFormed(calls[c].input)) =>
      \A i \in 1..Len(calls[c].input) :
        calls[c].flags.power_drop[i] <=>
          /\ i > 1
          /\ Field(c, i, KeyPower)[1] - Field(c, i - 1, KeyPower)[1]
               <= PowerDropThreshold - 1

\* a call flagged a record that follows one with a step of -101, and its
\* first record is one with a lower power than the ordinary
C13_Witness ==
  \E c \in Callers :
    /\ calls[c].pc \in Finished
    /\ WellFormed(calls[c].input)
    /\ \E i \in 2..Len(calls[c].input) :
         /\ Field(c, i, KeyPower)[1] - Field(c, i - 1, KeyPower)[1]
              = PowerDropThreshold - 1
         /\ calls[c].flags.power_drop[i]
    /\ Field(c, 1, KeyPower)[1] < Normal[KeyPower][1]

\* C14: a record whose irradiance is 0 does not make the call raise, has a
\* null norm_power and so is no row of the ML feature matrix (ml_anomaly is
\* false for it), and every detector yields a flag for every record of the
\* batch.
C14_ZeroIrradianceIsSafe ==
  \A c \in Callers :
    (/\ calls[c].pc # "idle"
     /\ WellFormed(calls[c].input)
     /\ \E i \in 1..Len(calls[c].input) : Field(c, i, KeyIrr) = <<0, 0>>) =>
      /\ calls[c].pc \in Finished
      /\ \A d \in Detectors : Len(calls[c].flags[d]) = Len(calls[c].input)
      /\ \A i \in 1..Len(calls[c].input) :
           Field(c, i, KeyIrr) = <<0, 0>> =>
             /\ NormPowerNull(DataFrame(calls[c].input), i)
             /\ i \notin MlFeatures(DataFrame(calls[c].input))
             /\ ~calls[c].flags.ml_anomaly[i]

\* a call on a batch with a zero-irradiance record and eleven complete
\* records fitted the forest, returned, and a detector flagged a record
C14_Witness ==
  \E c \in Callers :
    /\ calls[c].pc \in Finished
    /\ WellFormed(calls[c].input)
    /\ \E i \in 1..Len(calls[c].input) : Field(c, i, KeyIrr) = <<0, 0>>
    /\ calls[c].fitted
    /\ calls[c].result # <<>>

\* C15 (as claimed): a client that opened the event stream after
\* start_investigation returned receives a completion event, whether the run
\* succeeds or fails and whenever the client subscribed: once the run is over,
\* a stream that is still open finds the completion event waiting in its queue.
C15_CompletionReachesClient ==
  \A c \in Clients :
    (run.pc = "ended" /\ streams[c].pc = "open") =>
      \E k \in 1..Len(queues[streams[c].queue]) :
        queues[streams[c].queue][k].type = "completion"

\* C16: for every agent response string generate_ui_summary returns a summary
\* of at most 10 whitespace-separated words, and it does not raise.
C16_SummaryAtMostTenWords ==
  summary.pc = "done" =>
    /\ Len(Split(summary.result)) <= SummaryWords
    /\ ~summary.raised

\* a response of more than ten words that holds no keyword was summarized by
\* its first ten meaningful words
C16_Witness ==
  /\ summary.pc = "done"
  /\ Len(Split(summary.response)) > SummaryWords
  /\ Len(Split(summary.result)) = SummaryWords
  /\ summary.result = Join(FirstWords(MeaningfulWords(Split(summary.response)),
                                      SummaryWords))

\* C17 (as claimed): the status updates of an investigation come in the order
\* PENDING, RUNNING, then exactly one of COMPLETED, REQUIRES_ATTENTION or
\* FAILED, none follows the terminal one, and when the run has ended, on any
\* path, the investigation's runner is not in active_runners.
C17_StatusOrderAndCleanup ==
  /\ Len(inv.history) <= 3
  /\ Len(inv.history) >= 1 => inv.history[1] = "pending"
  /\ Len(inv.history) >= 2 => inv.history[2] = "running"
  /\ Len(inv.history) >= 3 =>
       inv.history[3] \in {"completed", "requires_attention", "failed"}
  /\ run.pc = "ended" =>
       /\ Len(inv.history) = 3
       /\ Id \notin active_runners

\* the events a stream took from its queue, in the order it yielded them
Taken(c) ==
  SelectSeq(streams[c].received,
            LAMBDA e : e.type \notin {"connected", "heartbeat"})

\* the stream of client c is the only one that reads its queue
SoleConsumer(c) ==
  \A d \in Clients \ {c} :
    streams[d].pc = "idle" \/ streams[d].queue # streams[c].queue

\* what a stream that has yielded anything has yielded: connected first and
\* only first, then events in the order they were queued (each one an event
\* the service queued, none skipped when no other stream reads the queue),
\* a completion only as its last event, after which it has ended
StreamInOrder(c) ==
  LET received == streams[c].received
      taken == Taken(c)
      waiting == queues[streams[c].queue]
  IN streams[c].pc # "idle" =>
       /\ received # <<>>
       /\ received[1] = Connected
       /\ \A k \in 2..Len(received) : received[k] # Connected
       /\ \A k \in 1..Len(taken) : run.emitted[taken[k].seq] = taken[k]
       /\ \A k \in 1..(Len(taken) - 1) : taken[k].seq < taken[k + 1].seq
       /\ SoleConsumer(c) =>
            \A k \in 1..(Len(taken \o waiting) - 1) :
              (taken \o waiting)[k + 1].seq = (taken \o waiting)[k].seq + 1
       /\ \A k \in 1..(Len(received) - 1) : received[k].type # "completion"
       /\ streams[c].pc = "ended" <=>
            received[Len(received)].type = "completion"

\* a stream that ends, by a completion event or by the client going away,
\* leaves no queue registered for the investigation
StreamEndRemovesQueue(c) ==
  (streams[c].pc = "open" /\ streams'[c].pc \in {"ended", "closed"}) =>
    event_queues'[Id] = None

\* C18: get_event_stream yields a connected event first, then the events
\* queued for the investigation in exactly the order they were queued, with
\* heartbeats in between only, yields nothing after a completion event, and
\* removes the investigation's queue from event_queues when the stream ends.
C18_StreamOrder ==
  /\ [](\A c \in Clients : StreamInOrder(c))
  /\ [][\A c \in Clients : StreamEndRemovesQueue(c)]_vars

\* a stream has ended on the completion event after a heartbeat and at least
\* three queued events, and the investigation has no queue registered
C18_Witness ==
  \E c \in Clients :
    /\ streams[c].pc = "ended"
    /\ Len(Taken(c)) >= 4
    /\ \E k \in 1..Len(streams[c].received) : streams[c].received[k] = Heartbeat
    /\ event_queues[Id] = None

\* the run is past its try / except / finally
RunOver == run.pc \in {"cleaned", "workorder", "continuing", "ended"}

\* the positions of the completion events among those the run handed to
\* _queue_sse_event
Completions ==
  {k \in 1..Len(run.emitted) : run.emitted[k].type = "completion"}

\* C19: a run that finishes without exception queues exactly one completion
\* event, right after the terminal status_update, with the terminal status of
\* the investigation, which is COMPLETED if and only if the stripped final
\* response is longer than 10 characters and REQUIRES_ATTENTION otherwise; a
\* run that ends with an exception sets FAILED and queues no completion event.
C19_OneCompletionAfterTerminalStatus ==
  /\ Cardinality(Completions) <= 1
  /\ (RunOver /\ ~run.raised) =>
       /\ Cardinality(Completions) = 1
       /\ \A k \in Completions :
            /\ k > 1
            /\ run.emitted[k - 1].type = "status_update"
            /\ run.emitted[k - 1].status = run.emitted[k].status
            /\ run.emitted[k].status = inv.history[Len(inv.history)]
            /\ run.emitted[k].status \in {"completed", "requires_attention"}
            /\ run.emitted[k].status = "completed" <=>
                 /\ run.final_response # None
                 /\ run.final_response[1].stripped > MinResponseLen
  /\ (RunOver /\ run.raised) =>
       /\ inv.history[Len(inv.history)] = "failed"
       /\ Completions = {}

\* a run has finished without exception on a final response of exactly ten
\* characters between blanks, and its completion event says REQUIRES_ATTENTION
C19_Witness ==
  /\ run.pc = "ended"
  /\ ~run.raised
  /\ run.final_response = Some([length |-> 12, stripped |-> 10])
  /\ \E k \in Completions : run.emitted[k].status = "requires_attention"

\* the days from start_date to end_date of the request that was made
RequestedDays == inv.request[1].end_date - inv.request[1].start_date

C22_WritesOnlyItsKey ==
  [][\A c \in Callers :
       (calls[c].pc = "idle" /\ calls'[c].pc # "idle") =>
         IF calls'[c].pc = "returned"
         THEN /\ state'.filtered_plant_timeseries_df = Some(calls'[c].result)
              /\ state'.problematic_five_minutes_pr =
                   state.problematic_five_minutes_pr
         ELSE state' = state]_vars

\* a call returned flagged rows and left them under its key, in a session
\* that holds stored problematic rows
C22_Witness ==
  /\ calls[1].pc = "returned"
  /\ calls[1].result # <<>>
  /\ state.filtered_plant_timeseries_df = Some(calls[1].result)
  /\ Len(StoredRows(state)) = MaxAppends

\* C23: whatever setup callbacks and append_problematic_rows calls a session
\* sees, problematic_five_minutes_pr only grows: setup leaves an existing list
\* as it is, an append adds exactly one element at the end of the list
\* (created first when the key is absent), and the elements stored before
\* keep their value and order.
C23_ListOnlyGrows ==
  [][/\ state.problematic_five_minutes_pr # None =>
          state'.problematic_five_minutes_pr # None
     /\ Len(StoredRows(state')) \in
          {Len(StoredRows(state)), Len(StoredRows(state)) + 1}
     /\ SubSeq(StoredRows(state'), 1, Len(StoredRows(state))) = StoredRows(state)
     /\ Setup => StoredRows(state') = StoredRows(state)
     /\ AppendProblematicRows =>
          /\ Len(StoredRows(state')) = Len(StoredRows(state)) + 1
          /\ StoredRows(state')[Len(StoredRows(state'))] \in RowStrings]_vars

\* two strings are stored, in the order they were appended, and setup has run
\* since the filter last returned
C23_Witness ==
  /\ state.problematic_five_minutes_pr = Some(<<"rowsB", "rowsA">>)
  /\ calls[1].pc \in Finished
  /\ calls[1].result # <<>>
  /\ state.filtered_plant_timeseries_df = None

\* the module temperatures of call c's input records all differ, none missing
DistinctTemps(c) ==
  /\ \A i \in 1..Len(calls[c].input) :
       /\ KeyTemp \in DOMAIN calls[c].input[i]
       /\ ~IsNull(calls[c].input[i][KeyTemp])
  /\ \A i, j \in 1..Len(calls[c].input) :
       i # j => calls[c].input[i][KeyTemp] # calls[c].input[j][KeyTemp]

\* the record of call c's input with the highest module temperature
Hottest(c) ==
  CHOOSE i \in 1..Len(calls[c].input) :
    \A j \in 1..Len(calls[c].input) :
      calls[c].input[j][KeyTemp][1] <= calls[c].input[i][KeyTemp][1]

C24_EveryStreamReceivesAll ==
  \A c, d \in Clients :
    (c # d /\ streams[c].pc # "idle" /\ streams[d].pc = "open") =>
      \A i \in 1..Len(Taken(d)) :
        \A k \in (Taken(d)[i].seq + 1)..Len(run.emitted) :
          run.emitted[k] \in
            Range(Taken(d)) \cup Range(queues[streams[d].queue])

\* C21: start_investigation of the database-backed service runs the agent at
\* most MaxRetries + 1 = 2 times.  A first attempt that fails is followed by
\* the one retry; when the call has raised after attempts were made, both
\* attempts failed, the stored status is FAILED with an error message; when
\* it has returned, the attempt before the return was the only one to run
\* through, the stored status is COMPLETED or REQUIRES_ATTENTION and was
\* never FAILED, and nothing was raised.
C21_AtMostTwoAttempts ==
  /\ start.attempts <= MaxRetries + 1
  /\ start.pc = "sleeping" => start.attempts = 1 /\ start.failures = 1
  /\ (start.pc = "raised" /\ start.attempts > 0) =>
       /\ start.attempts = MaxRetries + 1
       /\ start.failures = start.attempts
       /\ start.status = "failed"
       /\ start.error_message
       /\ start.raised
  /\ start.pc = "returned" =>
       /\ start.attempts = start.failures + 1
       /\ start.status \in {"completed", "requires_attention"}
       /\ \A i \in 1..Len(start.history) : start.history[i] # "failed"
       /\ ~start.error_message
       /\ ~start.raised

\* both attempts failed and the exception has left start_investigation
C21_Witness ==
  /\ start.pc = "raised"
  /\ start.failures = MaxRetries + 1
  /\ start.status = "failed"

\* C25: a broadcast to the investigation that has ended did not raise, has
\* sent the message to every socket that was registered for the investigation
\* from its beginning to its end, has left no socket whose send failed in
\* the investigation's set, and has sent nothing to a socket of another
\* investigation, whatever connected or disconnected meanwhile.
C25_BroadcastSurvives ==
  broadcast.pc = "done" =>
    /\ broadcast.raised = ""
    /\ broadcast.steady \subseteq broadcast.sent
    /\ broadcast.disconnected \cap Registered(Id) = {}
    /\ \A s \in broadcast.sent : RoomOf(s) = Id

====
